---- MODULE Spec2Model ----
(***************************************************************************)
(* A model of BaseEnv (mani_skill2/envs/sapien_env.py): construction, the  *)
(* two-tier seed protocol, reset with optional reconfigure and optional    *)
(* env_idx subset, and step with its physics substeps.                     *)
(*                                                                         *)
(* The object's fields are the fields of the record `self`.  Every method  *)
(* is an operator from the object (and the call's arguments) to the        *)
(* object after the call, together with the exception the call raised      *)
(* ("" when it returned).  A raise leaves the writes made before it.       *)
(***************************************************************************)
EXTENDS Integers, Sequences, FiniteSets, TLC

VARIABLES
    kwargs,       \* the arguments of the BaseEnv(...) call of this run
    gpu_enabled,  \* sapien.physx.is_gpu_enabled(): process-wide, only ever turned on
    phase,        \* "new": before __init__, "ready": __init__ returned, "failed": __init__ raised
    self,         \* the fields of the BaseEnv object
    last,         \* the last call made: its name and arguments
    hist          \* what the caller has done so far (observation only)

vars == <<kwargs, gpu_enabled, phase, self, last, hist>>

(***************************************************************************)
(* Bounds of the model.                                                    *)
(***************************************************************************)
MaxEnvs == 2        \* largest num_envs of the general specification
MaxSteps == 2       \* step() is not called on an instance that already made this many steps
MaxFreq == 2        \* largest reconfiguration_freq
MaxDraws == 2       \* reset(seed=None) is not called once the main RNG gave this many draws
MaxRecorded == 4    \* hist.rebuilds records this many resets
RandRange == 3      \* randint(2**32) narrowed to 0..RandRange-1

(***************************************************************************)
(* Python's None and optional values.                                      *)
(***************************************************************************)
None == <<>>
Some(x) == <<x>>

Envs(n) == 0 .. (n - 1)

(***************************************************************************)
(* numpy.random.RandomState: the seed it was made from and the number of   *)
(* draws taken since.  randint is a fixed function of the two.             *)
(***************************************************************************)
RandomState(seed) == [seed |-> Some(seed), pos |-> 0]

NoRng == [seed |-> None, pos |-> 0]

randint(rng) == (rng.seed[1] + rng.pos + 1) % RandRange

advance(rng) == [rng EXCEPT !.pos = @ + 1]

(***************************************************************************)
(* The simulation content.  pose[i] and vel[i] stand for the poses and     *)
(* velocities of the objects of instance i; target is the drive target the *)
(* agent's controller holds (None: no control input).                      *)
(***************************************************************************)
Poses == 0 .. 2

NoScene == [exists |-> FALSE, _reset_mask |-> <<>>, pose |-> <<>>, vel |-> <<>>]

\* control_mode: the mode of the agent's controller; axis: how the last action
\* arrived at agent.set_action ("batch": with a leading batch axis, "single":
\* in per-instance shape, "": none arrived); multi: a MultiAgent.
NoAgent == [exists |-> FALSE, target |-> None, control_mode |-> "", axis |-> "",
            multi |-> FALSE]

ControlModes == {"pd_joint_pos", "pd_ee_delta_pos"}

\* ManiSkillScene(sub_scenes): one sub-scene per instance, nothing loaded yet.
ManiSkillScene(n) ==
    [exists |-> TRUE,
     _reset_mask |-> [i \in Envs(n) |-> TRUE],
     pose |-> [i \in Envs(n) |-> 0],
     vel |-> [i \in Envs(n) |-> 0]]

\* Actor.set_linear_velocity / set_angular_velocity / Articulation.set_qvel:
\* on the GPU backend the write goes to the rows of the published reset mask,
\* on the CPU backend to the one object there is.
set_velocity(scene, gpu, v) ==
    [scene EXCEPT !.vel = [i \in DOMAIN scene.vel |->
        IF gpu => scene._reset_mask[i] THEN v ELSE scene.vel[i]]]

\* The stochastic placement a task's initialization hooks make: the j-th
\* instance of env_idx gets the j-th sample of the stream seeded with the
\* Episode Seed.
InitPose(seed, rank) == 1 + ((seed + rank) % 2)

Rank(env_idx, i) == Cardinality({j \in env_idx : j < i})

\* One physics tick of the backend: the controller's target drives the
\* velocity, the velocity moves the pose.
scene_step(scene, agent) ==
    LET v == [i \in DOMAIN scene.vel |->
                 IF agent.target = None THEN scene.vel[i] ELSE agent.target[1]]
    IN [scene EXCEPT !.vel = v,
                     !.pose = [i \in DOMAIN scene.pose |-> (scene.pose[i] + v[i]) % Cardinality(Poses)]]

(***************************************************************************)
(* The call in flight.  self.exc is the exception the last call raised     *)
(* ("": it returned) and self.trace the hooks and backend calls it made,   *)
(* in order.  A statement after a raise does not run.                      *)
(***************************************************************************)
Log(obj, ev) == [obj EXCEPT !.trace = Append(@, ev)]

Raise(obj, e) == [obj EXCEPT !.exc = e]

Count(seq, ev) == Cardinality({k \in DOMAIN seq : seq[k] = ev})

\* A statement of a method, once the ones before it have run.
Then(obj, ev) == IF obj.exc # "" THEN obj ELSE Log(obj, ev)

\* A call of a hook the task class overrides; obj.fault names the hook that
\* raises when the call in flight gets to it.
Hook(obj, name) ==
    IF obj.exc # "" THEN obj
    ELSE IF obj.fault = name THEN Raise(Log(obj, name), "RuntimeError")
    ELSE Log(obj, name)

\* The hooks of the task class: the keys its evaluate() returns and whether
\* it overrides compute_dense_reward / compute_normalized_dense_reward.
\* draws: its scene-loading hooks draw from the episode RNG.
NoHooks == [evaluate |-> {}, dense |-> FALSE, draws |-> FALSE]

\* A task class as far as the constructor looks at it: the value of its
\* class attribute SUPPORTED_ROBOTS (None: the one inherited from BaseEnv)
\* and what its body merely annotates, binding nothing.
BaseEnv == [SUPPORTED_ROBOTS |-> None, annotations |-> None, robot_uids |-> "panda"]

\* class CleanSpotsEnv(BaseEnv): SUPPORTED_ROBOTS: ["panda_stick"]
CleanSpotsEnv ==
    [SUPPORTED_ROBOTS |-> None, annotations |-> Some({"panda_stick"}),
     robot_uids |-> "panda_stick"]

\* A task class that assigns SUPPORTED_ROBOTS = ["panda_stick"].
StickOnlyEnv ==
    [SUPPORTED_ROBOTS |-> Some({"panda_stick"}), annotations |-> None,
     robot_uids |-> "panda_stick"]

\* The robots a task class declares as supported, by either spelling.
Declared(cls) ==
    IF cls.SUPPORTED_ROBOTS # None THEN cls.SUPPORTED_ROBOTS ELSE cls.annotations

SUPPORTED_OBS_MODES ==
    {"state", "state_dict", "none", "sensor_data", "rgbd", "pointcloud"}

SUPPORTED_REWARD_MODES == {"normalized_dense", "dense", "sparse"}

SUPPORTED_RENDER_MODES == {"human", "rgb_array", "sensors"}

\* What the hooks of the call in flight were handed: env_idx, the index
\* list of each initialization hook in call order, and rng, the episode RNG
\* as the initialization hooks found it.
NoSeen == [env_idx |-> <<>>, rng |-> None]

\* What the last call returned (kind "": nothing).  batched: the values carry
\* a leading axis of size num_envs, one row per instance.
NoReturn == [kind |-> "", batched |-> FALSE, obs |-> <<>>, reward |-> <<>>,
             terminated |-> <<>>, truncated |-> <<>>, info |-> <<>>]

\* unbatch(...): a leading axis of size 1 is squeezed away.
unbatch(ret, n) == [ret EXCEPT !.batched = (n # 1)]

(***************************************************************************)
(* The seed protocol.                                                      *)
(***************************************************************************)
\* A variant that seeds the main RNG anew on every call.
_set_main_rng_always(obj, seed, entropy) ==
    LET s == IF seed # None THEN seed[1]
             ELSE IF obj._main_seed # None THEN obj._main_seed[1] ELSE entropy
    IN [obj EXCEPT !._main_seed = Some(s), !._main_rng = RandomState(s)]

\* entropy: what the unseeded np.random.RandomState().randint(2**32) gives.
_set_main_rng(obj, seed, entropy) ==
    IF seed = None /\ obj._main_seed # None
    THEN obj
    ELSE LET s == IF seed = None THEN entropy ELSE seed[1]
         IN [obj EXCEPT !._main_seed = Some(s), !._main_rng = RandomState(s)]

\* A variant that draws the Episode Seed from the main RNG whatever it is given.
_set_episode_rng_draws(obj, seed) ==
    [obj EXCEPT !._main_rng = advance(@),
                !._episode_seed = Some(randint(obj._main_rng)),
                !._episode_rng = RandomState(randint(obj._main_rng))]

_set_episode_rng(obj, seed) ==
    LET s == IF seed = None THEN randint(obj._main_rng) ELSE seed[1]
        o == IF seed = None
             THEN [obj EXCEPT !._main_rng = advance(@)]
             ELSE obj
    IN [o EXCEPT !._episode_seed = Some(s), !._episode_rng = RandomState(s)]

(***************************************************************************)
(* Reconfigure.                                                            *)
(***************************************************************************)
\* self._viewer: None, or Some("bound") for a viewer set to the scene
\* the object owns.
_close_viewer(obj) ==
    IF obj._viewer = None THEN obj
    ELSE [Log(obj, "viewer.close") EXCEPT !._viewer = None]

_setup_viewer(obj) ==
    IF ~obj._scene.exists THEN Raise(obj, "AttributeError")   \* self._scene is None
    ELSE [Log(obj, "_setup_viewer") EXCEPT !._viewer = Some("bound")]

_clear(obj) ==
    [_close_viewer(obj) EXCEPT !.agent = NoAgent, !._scene = NoScene]

_setup_scene(obj) ==
    [obj EXCEPT !._scene = ManiSkillScene(obj.num_envs)]

\* agent_cls(scene, control_freq, self._control_mode); agent.set_control_mode():
\* more than one robot makes a MultiAgent.
_load_agent(obj) ==
    [obj EXCEPT !.agent = [exists |-> TRUE, target |-> None,
                           control_mode |-> obj._control_mode, axis |-> "",
                           multi |-> obj.robot_uids > 1]]

\* The task's hook that loads actors; a task may draw from the episode RNG.
_load_actors(obj) ==
    LET o == Hook(obj, "_load_actors")
    IN  IF o.exc = "" /\ obj.hooks.draws
        THEN [o EXCEPT !._episode_rng = advance(@)]
        ELSE o

_load_articulations(obj) == Hook(obj, "_load_articulations")

\* A variant that loads the actors and articulations before the agent.
load_content_actors_first(obj) ==
    LET o == _load_articulations(_load_actors(obj))
    IN  IF o.exc # "" THEN o ELSE _load_agent(Log(o, "_load_agent"))

load_content(obj) ==
    _load_articulations(_load_actors(_load_agent(Log(obj, "_load_agent"))))

\* self._sensor_cfgs, one camera uid that the task and the agent both
\* declare: the sources that wrote it, in order; the last one is in force.
_configure_sensors(obj) ==
    LET o == Hook(obj, "_register_sensors")
    IN  IF o.exc # "" THEN o
        ELSE [Log(o, "agent.sensor_configs") EXCEPT !._sensor_cfgs = <<"task", "agent">>]

\* update_camera_cfgs_from_dict(self._sensor_cfgs, self._custom_sensor_cfgs)
override_sensor_cfgs(obj) ==
    IF obj.exc # "" \/ obj._custom_sensor_cfgs = None THEN obj
    ELSE [Log(obj, "update_camera_cfgs_from_dict") EXCEPT
             !._sensor_cfgs = Append(@, obj._custom_sensor_cfgs[1])]

\* if physx.is_gpu_enabled(): self._scene._setup_gpu(); then the sensors
finish_scene(obj, gpu) ==
    Then(IF gpu THEN Then(obj, "_setup_gpu") ELSE obj, "_setup_sensors")

\* if self._viewer is not None: self._setup_viewer()
rebind_viewer(obj) ==
    IF obj.exc # "" THEN obj
    ELSE IF obj._viewer # None THEN _setup_viewer(obj) ELSE obj

\* The body of reconfigure up to the viewer, run under the forked torch RNG.
rebuild(obj, gpu) ==
    LET o1 == _clear(Log(Log(obj, "reconfigure"), "_clear"))
        o2 == _setup_scene(Log(o1, "_setup_scene"))
        o3 == load_content(o2)
        o4 == _configure_sensors(Then(o3, "_setup_lighting"))
        o5 == override_sensor_cfgs(Then(o4, "_configure_human_render_cameras"))
    IN  rebind_viewer(finish_scene(o5, gpu))

\* agent.single_action_space: the space of the controller in use, named by
\* its control mode.
single_action_space(agent) == agent.control_mode

\* A variant that leaves the Reconfiguration Counter as it is.
reconfigure_keeps_counter(obj, gpu) == rebuild(obj, gpu)

\* A variant that sets the Reconfiguration Counter also when a hook raised.
reconfigure_counting_failures(obj, gpu) ==
    [rebuild(obj, gpu) EXCEPT !._reconfig_counter = obj.reconfiguration_freq]

reconfigure(obj, gpu) ==
    LET o == rebuild(obj, gpu)
    IN  IF o.exc # "" THEN o
        ELSE [o EXCEPT !._reconfig_counter = obj.reconfiguration_freq]

(***************************************************************************)
(* Reset.                                                                  *)
(***************************************************************************)
_clear_sim_state(obj, gpu) ==
    [Log(obj, "_clear_sim_state") EXCEPT !._scene = set_velocity(@, gpu, 0)]

\* The four initialization hooks, handed env_idx: each places the instances
\* of env_idx and no other.
InitHook(obj, name, env_idx) ==
    LET o == Hook(obj, name)
    IN  IF o.exc # "" THEN o ELSE [o EXCEPT !.seen.env_idx = Append(@, env_idx)]

\* A variant that hands the task hook every instance.
initialize_episode_task_all(obj, env_idx) ==
    LET o0 == [Log(obj, "initialize_episode") EXCEPT !.seen.rng = Some(obj._episode_rng)]
        o1 == InitHook(o0, "_initialize_actors", env_idx)
        o2 == IF o1.exc # "" THEN o1
              ELSE [o1 EXCEPT !._scene.pose =
                      [i \in DOMAIN @ |->
                          IF i \in env_idx
                          THEN InitPose(obj._episode_seed[1], Rank(env_idx, i))
                          ELSE @[i]]]
        o3 == InitHook(o2, "_initialize_articulations", env_idx)
        o4 == InitHook(o3, "_initialize_agent", env_idx)
    IN  InitHook(o4, "_initialize_task", Envs(obj.num_envs))

initialize_episode(obj, env_idx) ==
    LET o0 == [Log(obj, "initialize_episode") EXCEPT !.seen.rng = Some(obj._episode_rng)]
        o1 == InitHook(o0, "_initialize_actors", env_idx)
        o2 == IF o1.exc # "" THEN o1
              ELSE [o1 EXCEPT !._scene.pose =
                      [i \in DOMAIN @ |->
                          IF i \in env_idx
                          THEN InitPose(obj._episode_seed[1], Rank(env_idx, i))
                          ELSE @[i]]]
        o3 == InitHook(o2, "_initialize_articulations", env_idx)
        o4 == InitHook(o3, "_initialize_agent", env_idx)
    IN  InitHook(o4, "_initialize_task", env_idx)

\* The task's evaluate(): the keys the task reports, each one value per
\* instance read off the scene.
evaluate(obj) ==
    [success |-> IF "success" \in obj.hooks.evaluate
                 THEN Some([i \in Envs(obj.num_envs) |-> obj._scene.pose[i] = 2])
                 ELSE None,
     fail |-> IF "fail" \in obj.hooks.evaluate
              THEN Some([i \in Envs(obj.num_envs) |-> obj._scene.pose[i] = 0])
              ELSE None]

\* info = dict(elapsed_steps=self._elapsed_steps.clone()): an int has no clone().
\* info.update(self.evaluate()): a hook that reports a key reads the scene.
get_info(obj) ==
    IF obj.exc # "" THEN obj
    ELSE IF obj._elapsed_steps.kind = "int" THEN Raise(obj, "AttributeError")
    ELSE IF obj.hooks.evaluate # {} /\ ~obj._scene.exists
    THEN Raise(obj, "AttributeError")
    ELSE Log(obj, "evaluate")

SensorModes == {"sensor_data", "rgbd", "pointcloud"}

\* agent.get_proprioception() (and the sensor data made from the same
\* state): one row per instance.
observation(obj) ==
    [i \in Envs(obj.num_envs) |-> <<obj._scene.pose[i], obj._scene.vel[i]>>]

\* get_obs once info is there: the dispatch on the observation mode.
observe(obj) ==
    IF obj._obs_mode = "none"
    THEN [Log(obj, "get_obs") EXCEPT !.ret.obs = <<>>]
    ELSE IF ~obj._scene.exists \/ ~obj.agent.exists
    THEN Raise(obj, "AttributeError")   \* self._scene / self.agent is None
    ELSE IF obj._obs_mode \in SensorModes
    THEN [Log(Log(Log(obj, "update_render"), "capture"), "get_obs") EXCEPT
             !.ret.obs = observation(obj)]
    ELSE IF obj._obs_mode \in {"state", "state_dict"}
    THEN [Log(obj, "get_obs") EXCEPT !.ret.obs = observation(obj)]
    ELSE Raise(obj, "NotImplementedError")

\* A variant that counts a step for every observation.
get_obs_counting(obj) ==
    LET o == get_info([obj EXCEPT !._elapsed_steps.val =
                          IF obj._elapsed_steps.kind = "int" THEN @ + 1
                          ELSE [i \in DOMAIN @ |-> @[i] + 1]])
    IN IF o.exc # "" THEN o ELSE observe(o)

get_obs(obj) ==
    LET o == get_info(obj)
    IN IF o.exc # "" THEN o ELSE observe(o)

\* The task's dense reward, where it has one.
compute_dense_reward(obj) ==
    [i \in Envs(obj.num_envs) |-> obj._scene.pose[i]]

\* A variant that gives a zero reward where the task has no dense hook.
get_reward_or_zero(obj, info) ==
    IF obj._reward_mode = "sparse" /\ info.success # None
    THEN [exc |-> "", val |-> info.success[1]]
    ELSE IF obj._reward_mode # "sparse" /\ obj.hooks.dense
    THEN [exc |-> "", val |-> compute_dense_reward(obj)]
    ELSE [exc |-> "", val |-> [i \in Envs(obj.num_envs) |-> 0]]

\* get_reward: [exc, val]; info["success"] of a missing key is a KeyError.
get_reward(obj, info) ==
    IF obj._reward_mode = "sparse"
    THEN IF info.success = None
         THEN [exc |-> "KeyError", val |-> <<>>]
         ELSE [exc |-> "", val |-> info.success[1]]
    ELSE IF obj._reward_mode \in {"dense", "normalized_dense"}
    THEN IF obj.hooks.dense
         THEN [exc |-> "", val |-> compute_dense_reward(obj)]
         ELSE [exc |-> "NotImplementedError", val |-> <<>>]
    ELSE [exc |-> "NotImplementedError", val |-> <<>>]

\* step's terminated: [exc, val].
get_terminated(obj, info) ==
    IF info.success # None
    THEN IF info.fail # None
         THEN [exc |-> "", val |-> [i \in Envs(obj.num_envs) |->
                                      info.success[1][i] \/ info.fail[1][i]]]
         ELSE [exc |-> "", val |-> info.success[1]]
    ELSE IF info.fail # None
         THEN [exc |-> "KeyError", val |-> <<>>]      \* terminated = info["success"]
         ELSE [exc |-> "", val |-> [i \in Envs(obj.num_envs) |-> FALSE]]

\* options: [reconfigure |-> BOOLEAN, env_idx |-> None or Some(set of indices)]
\* (a missing "reconfigure" key reads as False).
\* A variant that rebuilds whenever the counter is 0, also at frequency 0.
wants_reconfigure_at_zero(obj, options) ==
    options.reconfigure \/ obj._reconfig_counter = 0

\* A variant that looks at the counter only.
wants_reconfigure_by_counter(obj, options) ==
    obj._reconfig_counter = 0 /\ obj.reconfiguration_freq # 0

\* A variant that rebuilds one reset early.
wants_reconfigure_early(obj, options) ==
    options.reconfigure
        \/ (obj._reconfig_counter <= 1 /\ obj.reconfiguration_freq # 0)

wants_reconfigure(obj, options) ==
    options.reconfigure
        \/ (obj._reconfig_counter = 0 /\ obj.reconfiguration_freq # 0)

reset_indices(obj, options) ==
    IF options.env_idx # None THEN options.env_idx[1] ELSE Envs(obj.num_envs)

publish_mask(obj, env_idx) ==
    [obj EXCEPT !._scene._reset_mask = [i \in Envs(obj.num_envs) |-> i \in env_idx]]

\* A variant that zeroes the count of every instance.
zero_elapsed_all(obj, env_idx, gpu) ==
    IF gpu
    THEN [obj EXCEPT !._elapsed_steps.val = [i \in DOMAIN @ |-> 0]]
    ELSE [obj EXCEPT !._elapsed_steps = [kind |-> "int", val |-> 0]]

zero_elapsed(obj, env_idx, gpu) ==
    IF gpu
    THEN [obj EXCEPT !._elapsed_steps.val =
             [i \in DOMAIN @ |-> IF i \in env_idx THEN 0 ELSE @[i]]]
    ELSE [obj EXCEPT !._elapsed_steps = [kind |-> "int", val |-> 0]]

\* A variant that counts down at every frequency.
count_down_always(obj) ==
    [obj EXCEPT !._reconfig_counter = @ - 1]

count_down(obj) ==
    IF obj.reconfiguration_freq # 0
    THEN [obj EXCEPT !._reconfig_counter = @ - 1]
    ELSE obj

\* A variant that draws a new Episode Seed before the agent is reset.
reseed_episode_drawing(obj) ==
    _set_episode_rng(Log(obj, "_set_episode_rng"), None)

\* A variant that leaves the episode RNG as the reconfigure left it.
reseed_episode_never(obj) == obj

\* self._set_episode_rng(self._episode_seed), just before the agent is reset
reseed_episode(obj) ==
    _set_episode_rng(Log(obj, "_set_episode_rng"), obj._episode_seed)

reset(obj, seed, options, gpu, entropy) ==
    LET o1 == _set_main_rng(Log(obj, "_set_main_rng"), seed, entropy)
        o2 == _set_episode_rng(Log(o1, "_set_episode_rng"), seed)
        reconf == wants_reconfigure(o2, options)
        o3 == IF reconf THEN reconfigure(o2, gpu) ELSE o2
        env_idx == reset_indices(obj, options)
    IN  IF o3.exc # "" THEN o3
        ELSE IF ~o3._scene.exists
        THEN Raise(o3, "AttributeError")   \* self._scene is None
        ELSE
        LET o4 == publish_mask(Log(o3, "_reset_mask"), env_idx)
        IN  IF gpu /\ o4._elapsed_steps.kind = "int"
            THEN Raise(o4, "TypeError")    \* an int cannot be indexed
            ELSE
            LET o5 == zero_elapsed(Log(o4, "_elapsed_steps"), env_idx, gpu)
                o6 == IF ~reconf THEN _clear_sim_state(o5, gpu) ELSE o5
                o7 == count_down(o6)
                o8 == reseed_episode(o7)
                o9 == [Log(o8, "agent.reset") EXCEPT !.agent.target = None]
                o10 == initialize_episode(o9, env_idx)
                o11 == get_obs(o10)
            IN  IF o11.exc # "" THEN o11
                ELSE IF gpu
                THEN [Log(Log(Log(o11, "_gpu_apply_all"),
                              "gpu_update_articulation_kinematics"),
                          "_gpu_fetch_all") EXCEPT
                         !.ret.kind = "reset", !.ret.batched = TRUE]
                ELSE [o11 EXCEPT !._elapsed_steps = [kind |-> "int", val |-> 0],
                                 !.ret = unbatch([@ EXCEPT !.kind = "reset"],
                                                 obj.num_envs)]

(***************************************************************************)
(* Step.  action: [kind, val, shape, mode]: kind is "None", "array",        *)
(* "control_mode_dict" ({"control_mode": mode, "action": array}),          *)
(* "agent_dict" (one array per agent) or "other"; shape is "batch" (full   *)
(* batch shape) or "single" (the per-instance shape of the action space).  *)
(***************************************************************************)
\* A variant that calls the pre-substep hook after the physics tick.
substep_tick_first(obj) ==
    Log(Log([Log(obj, "scene.step") EXCEPT !._scene = scene_step(@, obj.agent)],
            "before_simulation_step"), "_after_simulation_step")

\* agent.before_simulation_step(); self._scene.step();
\* self._after_simulation_step()
substep(obj) ==
    Log([Log(Log(obj, "before_simulation_step"), "scene.step") EXCEPT
            !._scene = scene_step(@, obj.agent)], "_after_simulation_step")

RECURSIVE simulate(_, _)
\* n substeps
simulate(obj, n) ==
    IF n <= 0 THEN obj
    ELSE IF ~obj.agent.exists THEN Raise(obj, "AttributeError")   \* self.agent is None
    ELSE simulate(substep(obj), n - 1)

\* A variant that runs one substep more.
substeps_inclusive(obj) == simulate(obj, obj._sim_steps_per_control + 1)

\* for _ in range(self._sim_steps_per_control): ...
substeps(obj) == simulate(obj, obj._sim_steps_per_control)

\* A variant that counts physics substeps instead of control steps.
increment_elapsed_per_substep(obj) ==
    IF obj._elapsed_steps.kind = "int"
    THEN [obj EXCEPT !._elapsed_steps.val = @ + obj._sim_steps_per_control]
    ELSE [obj EXCEPT !._elapsed_steps.val =
             [i \in DOMAIN @ |-> @[i] + obj._sim_steps_per_control]]

increment_elapsed(obj) ==
    IF obj._elapsed_steps.kind = "int"
    THEN [obj EXCEPT !._elapsed_steps.val = @ + 1]
    ELSE [obj EXCEPT !._elapsed_steps.val = [i \in DOMAIN @ |-> @[i] + 1]]

\* action_is_unbatched: the shape is compared for a raw array and for the
\* entries of a per-agent dict, not for the array inside a control-mode dict.
action_is_unbatched(action) ==
    action.kind \in {"array", "agent_dict"} /\ action.shape = "single"

\* A variant that switches and resets the controller whatever its mode is.
switch_control_mode_always(obj, action) ==
    [Log(Log(obj, "set_control_mode"), "controller.reset") EXCEPT
        !.agent.control_mode = action.mode]

\* A variant that captures the action space again when the controller is
\* switched.
switch_control_mode_capturing(obj, action) ==
    IF action.mode # obj.agent.control_mode
    THEN [Log(Log(obj, "set_control_mode"), "controller.reset") EXCEPT
             !.agent.control_mode = action.mode,
             !._orig_single_action_space = Some(action.mode)]
    ELSE obj

\* if action["control_mode"] != self.agent.control_mode: ...
switch_control_mode(obj, action) ==
    IF action.mode # obj.agent.control_mode
    THEN [Log(Log(obj, "set_control_mode"), "controller.reset") EXCEPT
             !.agent.control_mode = action.mode]
    ELSE obj

\* if self.num_envs == 1 and action_is_unbatched: action = batch(action);
\* self.agent.set_action(action)
set_action(obj, action) ==
    [Log(obj, "set_action") EXCEPT
        !.agent.target = Some(action.val),
        !.agent.axis = IF obj.num_envs = 1 /\ action_is_unbatched(action)
                       THEN "batch" ELSE action.shape]

step_action(obj, action, gpu) ==
    IF action.kind = "other" THEN Raise(obj, "TypeError")
    ELSE IF action.kind = "agent_dict" /\ ~obj.agent.multi
    THEN Raise(obj, "AssertionError")
    ELSE IF action.kind # "None" /\ ~obj.agent.exists
    THEN Raise(obj, "AttributeError")                            \* self.agent is None
    ELSE
    LET o0 == IF action.kind = "control_mode_dict"
              THEN switch_control_mode(obj, action)
              ELSE obj
        o1 == IF action.kind # "None" THEN set_action(o0, action) ELSE o0
        o2 == substeps(o1)
    IN  IF o2.exc # "" THEN o2
        ELSE IF gpu /\ ~o2._scene.exists THEN Raise(o2, "AttributeError")
        ELSE IF gpu THEN Log(o2, "_gpu_fetch_all")
        ELSE o2

\* A variant that counts the step before it looks at the action.
\* A variant that truncates an instance at MaxSteps steps.
step_truncated_at_limit(obj, gpu) ==
    IF gpu
    THEN [kind |-> "tensor",
          val |-> [i \in Envs(obj.num_envs) |->
                     IF obj._elapsed_steps.val[i] >= MaxSteps THEN 1 ELSE 0]]
    ELSE [kind |-> "bool", val |-> obj._elapsed_steps.val >= MaxSteps]

\* step's truncated: torch.zeros(self.num_envs) on the GPU branch, False
\* on the other.
step_truncated(obj, gpu) ==
    IF gpu
    THEN [kind |-> "tensor", val |-> [i \in Envs(obj.num_envs) |-> 0]]
    ELSE [kind |-> "bool", val |-> FALSE]

step_counting_first(obj, action, gpu) ==
    LET o1 == step_action(increment_elapsed(obj), action, gpu)
    IN  IF o1.exc # "" THEN o1
        ELSE LET o3 == get_info(o1)
             IN IF o3.exc # "" THEN o3
                ELSE [observe(o3) EXCEPT !.ret.kind = "step", !.ret.batched = TRUE]

\* A variant that lets get_obs make its own info.
get_obs_without_info(obj) == get_obs(obj)

\* obs = self.get_obs(info): the info step has made is handed on.
get_obs_with_info(obj) == observe(obj)

step(obj, action, gpu) ==
    LET o1 == step_action(obj, action, gpu)
    IN  IF o1.exc # "" THEN o1
        ELSE
        LET o2 == increment_elapsed(Log(o1, "_elapsed_steps += 1"))
            o3 == get_info(o2)
        IN  IF o3.exc # "" THEN o3
            ELSE
            LET info == evaluate(o3)
                o4 == get_obs_with_info(o3)
                o5 == Then(o4, "get_reward")
                reward == get_reward(o5, info)
                terminated == get_terminated(o5, info)
            IN  IF o5.exc # "" THEN o5
                ELSE IF reward.exc # "" THEN Raise(o5, reward.exc)
                ELSE IF terminated.exc # "" THEN Raise(o5, terminated.exc)
                ELSE
                LET r == [o5.ret EXCEPT !.kind = "step", !.batched = TRUE,
                                        !.reward = reward.val,
                                        !.terminated = terminated.val,
                                        !.truncated = step_truncated(o5, gpu),
                                        !.info = info]
                IN  [o5 EXCEPT !.ret = IF gpu THEN r ELSE unbatch(r, obj.num_envs)]

(***************************************************************************)
(* render().  A viewer that was made but never set to a scene is           *)
(* Some("new").                                                            *)
(***************************************************************************)
render_human(obj, gpu) ==
    LET o == IF obj._viewer = None
             THEN _setup_viewer([Log(obj, "Viewer") EXCEPT !._viewer = Some("new")])
             ELSE obj
    IN  IF o.exc # "" THEN o
        ELSE IF gpu /\ ~o._scene.exists
        THEN Raise(o, "AttributeError")     \* self._scene is None
        ELSE [Log(o, "viewer.render") EXCEPT !.ret.kind = "viewer"]

\* render_rgb_array() and render_sensors(): both read the scene's cameras.
render_images(obj, kind) ==
    IF ~obj._scene.exists THEN Raise(obj, "AttributeError")
    ELSE [Log(Log(obj, "update_render"), kind) EXCEPT !.ret.kind = "image"]

render(obj, gpu) ==
    IF obj.render_mode = None THEN Raise(obj, "RuntimeError")
    ELSE IF obj.render_mode[1] = "human" THEN render_human(obj, gpu)
    ELSE IF obj.render_mode[1] = "rgb_array" THEN render_images(obj, "render_rgb_array")
    ELSE IF obj.render_mode[1] = "sensors" THEN render_images(obj, "render_sensors")
    ELSE Raise(obj, "NotImplementedError")

(***************************************************************************)
(* close(), get_state() and set_state().  A state is [dims, rows]: dims 2  *)
(* with one row per instance, or dims 1 with the one row of state[0].      *)
(***************************************************************************)
close(obj) == _clear(obj)

\* ManiSkillScene.get_sim_state(): one row per instance.
get_sim_state(scene) ==
    [i \in DOMAIN scene.pose |-> <<scene.pose[i], scene.vel[i]>>]

\* ManiSkillScene.set_sim_state(state): row i goes to instance i; a state of
\* one row is broadcast to every instance.
set_sim_state(scene, rows) ==
    LET row(i) == IF i \in DOMAIN rows THEN rows[i] ELSE rows[0]
    IN [scene EXCEPT !.pose = [i \in DOMAIN @ |-> row(i)[1]],
                     !.vel = [i \in DOMAIN @ |-> row(i)[2]]]

\* A variant that returns state[0] on every backend.
get_state_first_row(obj, gpu) ==
    [dims |-> 1, rows |-> [i \in {0} |-> get_sim_state(obj._scene)[0]]]

get_state(obj, gpu) ==
    IF gpu
    THEN [dims |-> 2, rows |-> get_sim_state(obj._scene)]
    ELSE [dims |-> 1, rows |-> [i \in {0} |-> get_sim_state(obj._scene)[0]]]

\* batch(state): a leading axis of size 1 is added.
batch(state) == [state EXCEPT !.dims = @ + 1]

set_state(obj, state, gpu) ==
    LET st == IF state.dims = 1 THEN batch(state) ELSE state
        o1 == [Log(obj, "set_sim_state") EXCEPT
                  !._scene = set_sim_state(@, st.rows)]
    IN IF gpu THEN Log(o1, "_gpu_apply_all") ELSE o1

(***************************************************************************)
(* Construction.                                                           *)
(* kw: [num_envs, force_use_gpu_sim, reconfiguration_freq, sim_freq,       *)
(*      control_freq, obs_mode, reward_mode, control_mode, render_mode,    *)
(*      sensor_cfgs, robot_uids (how many robots), robot (the uid given),  *)
(*      cls (the task class), hooks (what the class overrides)]            *)
(***************************************************************************)
DefaultSeed == 2022

NoObject ==
    [num_envs |-> 0, reconfiguration_freq |-> 0, _reconfig_counter |-> 0,
     device |-> "", _sim_freq |-> 0, _control_freq |-> 0,
     _sim_steps_per_control |-> 0, warned |-> FALSE,
     _main_seed |-> None, _main_rng |-> NoRng,
     _episode_seed |-> None, _episode_rng |-> NoRng,
     _elapsed_steps |-> [kind |-> "int", val |-> 0],
     _scene |-> NoScene, agent |-> NoAgent,
     _obs_mode |-> "", _reward_mode |-> "", _control_mode |-> "",
     robot_uids |-> 0, hooks |-> NoHooks, ret |-> NoReturn,
     _orig_single_action_space |-> None,
     draw_step |-> None, spots |-> <<>>,
     cls |-> BaseEnv, robot |-> "", render_mode |-> None, _viewer |-> None,
     _custom_sensor_cfgs |-> None, _sensor_cfgs |-> <<>>,
     fault |-> "", seen |-> NoSeen,
     exc |-> "", trace |-> <<>>]

\* A variant that looks at the batch size only.
select_device_by_size(kw) ==
    IF kw.num_envs > 1 THEN "cuda" ELSE "cpu"

\* self.device = torch.device("cuda") / torch.device("cpu")
select_device(kw) ==
    IF kw.num_envs > 1 \/ kw.force_use_gpu_sim THEN "cuda" ELSE "cpu"

\* if self.SUPPORTED_ROBOTS is not None: assert robot_uids in self.SUPPORTED_ROBOTS
robot_is_supported(kw) ==
    kw.cls.SUPPORTED_ROBOTS = None \/ kw.robot \in kw.cls.SUPPORTED_ROBOTS[1]

\* physx.is_gpu_enabled() once __init__ passed its device selection, which
\* comes after the assertion on the robot
gpu_after_init(kw, gpu) ==
    IF ~robot_is_supported(kw) THEN gpu
    ELSE gpu \/ kw.num_envs > 1 \/ kw.force_use_gpu_sim

\* Observation mode and reward mode: each is checked against the supported
\* ones and then stored.
check_modes(obj, kw) ==
    IF kw.obs_mode \notin SUPPORTED_OBS_MODES
    THEN Raise(obj, "NotImplementedError")
    ELSE IF kw.reward_mode \notin SUPPORTED_REWARD_MODES
    THEN Raise([obj EXCEPT !._obs_mode = kw.obs_mode], "NotImplementedError")
    ELSE [obj EXCEPT !._obs_mode = kw.obs_mode, !._reward_mode = kw.reward_mode]

\* A variant that refuses frequencies that do not divide.
set_frequencies_strict(obj, kw) ==
    LET o1 == [obj EXCEPT !._sim_freq = kw.sim_freq,
                          !._control_freq = kw.control_freq]
    IN  IF kw.sim_freq % kw.control_freq # 0
        THEN Raise(o1, "ValueError")
        ELSE [o1 EXCEPT !._sim_steps_per_control = kw.sim_freq \div kw.control_freq]

\* Set simulation and control frequency: a mismatch is logged as a warning
\* and the quotient is floored.
set_frequencies(obj, kw) ==
    [obj EXCEPT !._sim_freq = kw.sim_freq,
                !._control_freq = kw.control_freq,
                !.warned = (kw.sim_freq % kw.control_freq # 0),
                !._sim_steps_per_control = kw.sim_freq \div kw.control_freq]

__init__(kw, gpu, entropy) ==
    LET g == gpu_after_init(kw, gpu)
        o0 == [NoObject EXCEPT
                 !.hooks = kw.hooks,
                 !.cls = kw.cls,
                 !.robot_uids = kw.robot_uids,
                 !.robot = kw.robot,
                 !.num_envs = kw.num_envs,
                 !.reconfiguration_freq = kw.reconfiguration_freq,
                 !._reconfig_counter = 0,
                 !._custom_sensor_cfgs = kw.sensor_cfgs]
        o1 == check_modes(set_frequencies([o0 EXCEPT !.device = select_device(kw)],
                                          kw), kw)
        o2 == _set_main_rng([o1 EXCEPT !._control_mode = kw.control_mode,
                                       !.render_mode = kw.render_mode,
                                       !._viewer = None],
                            Some(DefaultSeed), entropy)
        o3 == [o2 EXCEPT !._elapsed_steps =
                 IF g THEN [kind |-> "tensor", val |-> [i \in Envs(kw.num_envs) |-> 0]]
                 ELSE [kind |-> "int", val |-> 0]]
        o4 == reset(o3, Some(DefaultSeed), [reconfigure |-> TRUE, env_idx |-> None],
                    g, entropy)
    IN  IF ~robot_is_supported(kw) THEN Raise(o0, "AssertionError")
        ELSE IF o1.exc # "" THEN o1
        ELSE IF o3.exc # "" THEN o3
        ELSE IF o4.exc # "" THEN o4
        ELSE [o4 EXCEPT !._orig_single_action_space =
                            Some(single_action_space(o4.agent))]

(***************************************************************************)
(* The calls a user of the object makes, one action per call.              *)
(***************************************************************************)
Begin(obj) ==
    [obj EXCEPT !.exc = "", !.trace = <<>>, !.ret = NoReturn, !.fault = "",
                !.seen = NoSeen]

NoAction == [kind |-> "None", val |-> 0, shape |-> "", mode |-> ""]

NoOptions == [reconfigure |-> FALSE, env_idx |-> None]

Call(op, seed, options, action) ==
    [op |-> op, seed |-> seed, options |-> options, action |-> action]

\* The unseeded entropy source is read only when no Main Seed exists yet.
Entropy(obj, seed) ==
    IF seed = None /\ obj._main_seed = None THEN 0 .. (RandRange - 1) ELSE {0}

Steps(obj) ==
    IF obj._elapsed_steps.kind = "int"
    THEN {obj._elapsed_steps.val}
    ELSE {obj._elapsed_steps.val[i] : i \in DOMAIN obj._elapsed_steps.val}

\* The arguments of a call that has been made.
NoKwargs ==
    [num_envs |-> 0, force_use_gpu_sim |-> FALSE, reconfiguration_freq |-> 0,
     sim_freq |-> 0, control_freq |-> 0,
     obs_mode |-> "", reward_mode |-> "", control_mode |-> "",
     robot_uids |-> 0, hooks |-> NoHooks,
     cls |-> BaseEnv, robot |-> "", render_mode |-> None, sensor_cfgs |-> None]

(***************************************************************************)
(* hist.seeded_with: the seed of the last seeded reset (the constructor's  *)
(* included); hist.none_resets: the reset(seed=None) calls made since;     *)
(* hist.rebuilds: for each reset the caller made since construction,       *)
(* whether it rebuilt the scene, recorded for a batch with a nonzero        *)
(* reconfiguration frequency as long as the caller never asked for a       *)
(* reconfigure (hist.explicit); hist.closed: close() has been called;       *)
(* hist.observed: the get_obs() calls made in a row up to now (at most 2); *)
(* hist.period: how many resets have returned since the last one that was  *)
(* asked to reconfigure (the constructor's is one), counted modulo the     *)
(* reconfiguration frequency, or -1 once a reset raised or reconfigure()   *)
(* or close() was called in between.                                       *)
(***************************************************************************)
NoHist == [seeded_with |-> None, none_resets |-> 0, rebuilds |-> <<>>, explicit |-> FALSE,
           closed |-> FALSE, observed |-> 0, period |-> -1]

Rebuilt(obj) == Count(obj.trace, "reconfigure") > 0

AfterReset(h, seed, options, obj) ==
    [seeded_with |-> IF seed # None THEN seed ELSE h.seeded_with,
     none_resets |-> IF seed # None THEN 0 ELSE h.none_resets + 1,
     explicit |-> h.explicit \/ options.reconfigure,
     closed |-> h.closed,
     observed |-> 0,
     period |-> IF obj.exc # "" THEN -1
                ELSE IF options.reconfigure THEN 0
                ELSE IF h.period = -1 \/ obj.reconfiguration_freq = 0 THEN h.period
                ELSE (h.period + 1) % obj.reconfiguration_freq,
     rebuilds |-> IF h.explicit \/ options.reconfigure \/ obj.reconfiguration_freq = 0
                  THEN <<>>
                  ELSE IF Len(h.rebuilds) < MaxRecorded
                  THEN Append(h.rebuilds, Rebuilt(obj))
                  ELSE h.rebuilds]

Construct ==
    /\ phase = "new"
    /\ \E entropy \in Entropy(NoObject, Some(DefaultSeed)) :
          self' = __init__(kwargs, gpu_enabled, entropy)
    /\ gpu_enabled' = gpu_after_init(kwargs, gpu_enabled)
    /\ phase' = IF self'.exc = "" THEN "ready" ELSE "failed"
    /\ last' = Call("__init__", None, NoOptions, NoAction)
    /\ kwargs' = NoKwargs
    /\ hist' = [NoHist EXCEPT !.seeded_with = Some(DefaultSeed),
                              !.period = IF self'.exc = "" THEN 0 ELSE -1]

ResetCall(seeds, reconfs, subsets) ==
    /\ phase = "ready"
    /\ \E seed \in seeds, rc \in reconfs,
          idx \in {None} \cup {Some(m) : m \in subsets} :
          /\ seed = None => self._main_rng.pos < MaxDraws
          /\ idx # None => idx[1] \subseteq Envs(self.num_envs)
          /\ \E entropy \in Entropy(self, seed) :
                self' = reset(Begin(self), seed,
                              [reconfigure |-> rc, env_idx |-> idx],
                              gpu_enabled, entropy)
          /\ last' = Call("reset", seed, [reconfigure |-> rc, env_idx |-> idx], NoAction)
          /\ hist' = AfterReset(hist, seed, [reconfigure |-> rc, env_idx |-> idx], self')
    /\ UNCHANGED <<kwargs, gpu_enabled, phase>>

\* A reset during which the task's hook named fault raises, if the call
\* gets to it.
FaultyResetCall(seeds, reconfs, faults) ==
    /\ phase = "ready"
    /\ \E seed \in seeds, rc \in reconfs, fault \in faults :
          LET options == [reconfigure |-> rc, env_idx |-> None]
          IN  /\ self' = reset([Begin(self) EXCEPT !.fault = fault], seed, options,
                               gpu_enabled, 0)
              /\ last' = Call("reset", seed, options, NoAction)
              /\ hist' = AfterReset(hist, seed, options, self')
    /\ UNCHANGED <<kwargs, gpu_enabled, phase>>

StepCall(actions, maxsteps) ==
    /\ phase = "ready"
    /\ \A n \in Steps(self) : n < maxsteps
    /\ \E a \in actions :
          /\ self' = step(Begin(self), a, gpu_enabled)
          /\ last' = Call("step", None, NoOptions, a)
    /\ hist' = [hist EXCEPT !.observed = 0]
    /\ UNCHANGED <<kwargs, gpu_enabled, phase>>

ReconfigureCall ==
    /\ phase = "ready"
    /\ self._episode_seed # None
    /\ self._episode_rng.pos < MaxDraws
    /\ self' = reconfigure(Begin(self), gpu_enabled)
    /\ last' = Call("reconfigure", None, NoOptions, NoAction)
    /\ hist' = [hist EXCEPT !.explicit = TRUE, !.rebuilds = <<>>, !.observed = 0,
                            !.period = -1]
    /\ UNCHANGED <<kwargs, gpu_enabled, phase>>

CloseCall ==
    /\ phase = "ready"
    /\ self' = close(Begin(self))
    /\ last' = Call("close", None, NoOptions, NoAction)
    /\ hist' = [hist EXCEPT !.closed = TRUE, !.explicit = TRUE, !.rebuilds = <<>>,
                            !.observed = 0, !.period = -1]
    /\ UNCHANGED <<kwargs, gpu_enabled, phase>>

\* obs = env.get_obs(): returned as made, with its leading axis.
GetObsCall ==
    /\ phase = "ready"
    /\ LET o == get_obs(Begin(self))
       IN self' = IF o.exc # "" THEN o
                  ELSE [o EXCEPT !.ret.kind = "get_obs", !.ret.batched = TRUE]
    /\ last' = Call("get_obs", None, NoOptions, NoAction)
    /\ hist' = [hist EXCEPT !.observed = IF @ < 2 THEN @ + 1 ELSE @]
    /\ UNCHANGED <<kwargs, gpu_enabled, phase>>

RenderCall ==
    /\ phase = "ready"
    /\ self' = render(Begin(self), gpu_enabled)
    /\ last' = Call("render", None, NoOptions, NoAction)
    /\ hist' = [hist EXCEPT !.observed = 0]
    /\ UNCHANGED <<kwargs, gpu_enabled, phase>>

\* env.set_state(env.get_state()) on a batch that owns a scene.
RoundTripCall ==
    /\ phase = "ready"
    /\ self._scene.exists
    /\ self' = set_state(Begin(self), get_state(self, gpu_enabled), gpu_enabled)
    /\ last' = Call("set_state", None, NoOptions, NoAction)
    /\ hist' = [hist EXCEPT !.observed = 0]
    /\ UNCHANGED <<kwargs, gpu_enabled, phase>>

(***************************************************************************)
(* Specifications.  Each draws the constructor's arguments and the calls'  *)
(* arguments from the sets its claims are about and fixes the others.      *)
(***************************************************************************)
FreqPairs == {<<100, 20>>, <<100, 30>>}

\* A task with one robot that reports success, in state observation mode
\* with the sparse reward, unless Task says otherwise.
Kwargs(ns, forces, freqs, pairs) ==
    {[num_envs |-> n, force_use_gpu_sim |-> f, reconfiguration_freq |-> q,
      sim_freq |-> p[1], control_freq |-> p[2],
      obs_mode |-> "state", reward_mode |-> "sparse",
      control_mode |-> "pd_joint_pos", robot_uids |-> 1,
      hooks |-> [NoHooks EXCEPT !.evaluate = {"success"}],
      cls |-> BaseEnv, robot |-> BaseEnv.robot_uids, render_mode |-> None,
      sensor_cfgs |-> None] :
        n \in ns, f \in forces, q \in freqs, p \in pairs}

Task(kws, obs_modes, reward_modes, robots, keys, denses) ==
    {[kw EXCEPT !.obs_mode = o, !.reward_mode = r, !.robot_uids = u,
                !.hooks = [@ EXCEPT !.evaluate = k, !.dense = d]] :
        kw \in kws, o \in obs_modes, r \in reward_modes, u \in robots,
        k \in keys, d \in denses}

\* The modes, the task class and the robot given to the constructor.
Setup(kws, obs_modes, reward_modes, render_modes, classes, robots) ==
    {[kw EXCEPT !.obs_mode = o, !.reward_mode = r, !.render_mode = m,
                !.cls = c, !.robot = u] :
        kw \in kws, o \in obs_modes, r \in reward_modes, m \in render_modes,
        c \in classes, u \in robots}

\* Tasks whose scene-loading hooks draw from the episode RNG, or not, and
\* the sensor configuration the user gives.
Loading(kws, draws, cfgs) ==
    {[kw EXCEPT !.hooks.draws = d, !.sensor_cfgs = c] :
        kw \in kws, d \in draws, c \in cfgs}

InitWith(kws, gpus) ==
    /\ kwargs \in kws
    /\ gpu_enabled \in gpus
    /\ phase = "new"
    /\ self = NoObject
    /\ last = Call("", None, NoOptions, NoAction)
    /\ hist = NoHist

\* A raw array in full-batch shape.
Array(v) == [kind |-> "array", val |-> v, shape |-> "batch", mode |-> ""]

Other == [kind |-> "other", val |-> 0, shape |-> "", mode |-> ""]

\* A raw array in the per-instance shape of the action space.
Single(v) == [kind |-> "array", val |-> v, shape |-> "single", mode |-> ""]

\* {"control_mode": mode, "action": a} and {agent: a, ...}
ModeDict(mode, a) == [a EXCEPT !.kind = "control_mode_dict", !.mode = mode]

AgentDict(a) == [a EXCEPT !.kind = "agent_dict"]

\* The general specification: every device selection, every reconfiguration
\* frequency up to MaxFreq, divisible and indivisible frequencies.
Init == InitWith(Kwargs({1, 2}, BOOLEAN, 0 .. MaxFreq, FreqPairs), BOOLEAN)

Next ==
    \/ Construct
    \/ ResetCall({Some(1)}, BOOLEAN, {{}, {0}, {0, 1}})
    \/ StepCall({NoAction, Array(1), Other}, MaxSteps)
    \/ ReconfigureCall

Spec == Init /\ [][Next]_vars

\* The seed protocol: seeded and unseeded resets in any order.
InitSeeds == InitWith(Kwargs({1}, {TRUE}, {0, 1}, {<<100, 20>>}), {FALSE})

NextSeeds ==
    \/ Construct
    \/ ResetCall({None, Some(0), Some(1)}, BOOLEAN, {})
    \/ StepCall({NoAction}, MaxSteps)
    \/ ReconfigureCall

SpecSeeds == InitSeeds /\ [][NextSeeds]_vars

\* Partial resets: every batch size up to MaxEnvs and every subset of it.
InitMask == InitWith(Kwargs(1 .. MaxEnvs, BOOLEAN, {0, 1}, {<<100, 20>>}), BOOLEAN)

NextMask ==
    \/ Construct
    \/ ResetCall({Some(1)}, BOOLEAN, SUBSET Envs(MaxEnvs))
    \/ StepCall({NoAction, Array(1)}, MaxSteps)

SpecMask == InitMask /\ [][NextMask]_vars

\* Batches of 1 and of 4 (the scenario: 100 Hz simulation, 20 Hz control,
\* three steps), with every subset of the batch.
InitBatch == InitWith(Kwargs({1, 4}, BOOLEAN, {0}, FreqPairs), BOOLEAN)

NextBatch ==
    \/ Construct
    \/ ResetCall({Some(1)}, {FALSE}, SUBSET Envs(4))
    \/ StepCall({NoAction, Other}, 3)

SpecBatch == InitBatch /\ [][NextBatch]_vars

\* Evaluation and reward: every set of keys evaluate() may report, the
\* sparse and the dense reward, with and without the task's dense hook.
InitStep ==
    InitWith(Task(Kwargs({1, 2}, {TRUE}, {0}, {<<100, 20>>}), {"state"},
                  {"sparse", "dense", "normalized_dense"}, {1},
                  SUBSET {"success", "fail"}, BOOLEAN), {TRUE})

NextStep ==
    \/ Construct
    \/ ResetCall({Some(0), Some(1)}, {FALSE}, {})
    \/ StepCall({NoAction, Array(1), Array(2)}, MaxSteps)

SpecStep == InitStep /\ [][NextStep]_vars

\* Actions of every kind and shape on batches of one and of two instances,
\* with one robot and with two.
ActionKinds ==
    {NoAction, Other} \cup
    UNION {{a, ModeDict("pd_joint_pos", a), ModeDict("pd_ee_delta_pos", a), AgentDict(a)} :
              a \in {Array(1), Single(1)}}

InitShapes ==
    InitWith(Task(Kwargs({1, 2}, BOOLEAN, {0}, {<<100, 20>>}), {"state", "none"},
                  {"sparse"}, {1, 2}, {{"success"}}, {FALSE}), BOOLEAN)

NextShapes ==
    \/ Construct
    \/ ResetCall({Some(1)}, {FALSE}, {})
    \/ StepCall(ActionKinds, MaxSteps)

SpecShapes == InitShapes /\ [][NextShapes]_vars

\* The life of a batch: construction, resets, steps, reconfigures,
\* observations and close, in every observation mode.
InitLife ==
    InitWith(Task(Kwargs({1, 2}, BOOLEAN, {0, 1}, {<<100, 20>>}),
                  {"state", "none", "rgbd"}, {"sparse"}, {1},
                  {{}, {"success"}}, {FALSE}), BOOLEAN)

NextLife ==
    \/ Construct
    \/ ResetCall({Some(1)}, BOOLEAN, {})
    \/ StepCall({NoAction, Array(1)}, MaxSteps)
    \/ ReconfigureCall
    \/ GetObsCall
    \/ CloseCall

SpecLife == InitLife /\ [][NextLife]_vars

\* State checkpoints: partial resets and steps make the instances differ.
InitState == InitWith(Kwargs(1 .. MaxEnvs, BOOLEAN, {0}, {<<100, 20>>}), BOOLEAN)

NextState ==
    \/ Construct
    \/ ResetCall({Some(0), Some(1)}, {FALSE}, SUBSET Envs(MaxEnvs))
    \/ StepCall({NoAction, Array(1)}, MaxSteps)
    \/ RoundTripCall

SpecState == InitState /\ [][NextState]_vars

(***************************************************************************)
(* The claims.                                                             *)
(***************************************************************************)
Returned == phase = "ready" /\ self.exc = ""

\* C1: the k-th reset(seed=None) made since the main RNG was seeded with S
\* yields the Episode Seed that is the k-th draw of the stream of S, whatever
\* was called before the seeding: any two runs give the same sequence.
C1_EpisodeSeedsDependOnMainSeedOnly ==
    (phase = "ready" /\ last.op = "reset" /\ last.seed = None) =>
        /\ hist.none_resets >= 1
        /\ self._main_seed = hist.seeded_with
        /\ self._episode_seed =
              Some(randint([seed |-> hist.seeded_with, pos |-> hist.none_resets - 1]))

C1_Witness ==
    /\ Returned /\ last.op = "reset" /\ last.seed = None
    /\ hist.seeded_with = Some(1) /\ hist.none_resets = 2
    /\ self._episode_seed = Some(randint([seed |-> Some(1), pos |-> 1]))
    /\ self._episode_seed # Some(randint([seed |-> Some(1), pos |-> 0]))

\* C2: after reset(seed=s) with s given, the Main Seed is s, the main RNG is
\* freshly seeded with s (no draw taken) and the Episode Seed is s.
C2_SeededResetSetsBothSeeds ==
    (phase = "ready" /\ last.op = "reset" /\ last.seed # None) =>
        /\ self._main_seed = last.seed
        /\ self._main_rng = RandomState(last.seed[1])
        /\ self._episode_seed = last.seed

C2_Witness ==
    /\ Returned /\ last.op = "reset" /\ last.seed = Some(0)
    /\ self._main_seed = Some(0) /\ self._main_rng.pos = 0
    /\ self._episode_seed = Some(0)
    /\ self._elapsed_steps.val[0] = 0

Elapsed(obj, i) == obj._elapsed_steps.val[i]

Ticks(obj) == Count(obj.trace, "scene.step")

\* C3: a reset given an explicit env_idx subset M leaves the pose, the
\* velocity and the elapsed-step count of every instance outside M as they
\* were, whatever the reconfiguration frequency and counter.
C3_MaskedResetLeavesOthersAlone ==
    [][(phase = "ready" /\ last'.op = "reset" /\ last'.options.env_idx # None) =>
          \A i \in Envs(self.num_envs) \ last'.options.env_idx[1] :
              /\ self'._scene.pose[i] = self._scene.pose[i]
              /\ self'._scene.vel[i] = self._scene.vel[i]
              /\ Elapsed(self', i) = Elapsed(self, i)]_vars

\* C4: a reset given env_idx = M sets Elapsed Steps to 0 at exactly the
\* indices of M and leaves every other entry at its value before the call.
C4_ElapsedZeroedExactlyOnMask ==
    [][(phase = "ready" /\ last'.op = "reset" /\ last'.options.env_idx # None) =>
          \A i \in Envs(self.num_envs) :
              Elapsed(self', i) =
                  IF i \in last'.options.env_idx[1] THEN 0 ELSE Elapsed(self, i)]_vars

C4_Witness ==
    /\ Returned /\ last.op = "reset" /\ last.options.env_idx = Some({1, 3})
    /\ self.num_envs = 4
    /\ self._elapsed_steps.val = [i \in Envs(4) |-> IF i \in {1, 3} THEN 0 ELSE 2]

\* C5: every step() that returns adds exactly 1 to the Elapsed Steps of every
\* instance, whatever the number of substeps; a batch of 4 stepped 3 times
\* after a full reset stands at [3, 3, 3, 3].
C5_StepAddsOne ==
    [][(phase = "ready" /\ last'.op = "step" /\ self'.exc = "") =>
          \A i \in Envs(self.num_envs) : Elapsed(self', i) = Elapsed(self, i) + 1]_vars

C5_Witness ==
    /\ Returned /\ last.op = "step"
    /\ self.num_envs = 4 /\ Ticks(self) = 5
    /\ self._elapsed_steps.val = [i \in Envs(4) |-> 3]

\* C6: a reset() rebuilds the scene if and only if options.reconfigure is true
\* or the Reconfiguration Counter is 0 at the start of the call while the
\* configured frequency is not 0.
C6_ReconfigureIff ==
    [][(phase = "ready" /\ last'.op = "reset") =>
          /\ Count(self'.trace, "reconfigure") <= 1
          /\ Rebuilt(self') <=>
                 \/ last'.options.reconfigure
                 \/ (self._reconfig_counter = 0 /\ self.reconfiguration_freq # 0)]_vars

C6_Witness ==
    /\ Returned /\ last.op = "reset" /\ ~last.options.reconfigure
    /\ Rebuilt(self)
    /\ self._reconfig_counter = self.reconfiguration_freq - 1

\* C7 as stated: at frequency 2 with no explicit reconfigure, of the resets
\* the caller issues the 1st and the 3rd rebuild and the 2nd does not.
C7_CallerFirstAndThirdRebuild ==
    (phase = "ready" /\ self.reconfiguration_freq = 2 /\ ~hist.explicit) =>
        /\ Len(hist.rebuilds) >= 1 => hist.rebuilds[1]
        /\ Len(hist.rebuilds) >= 2 => ~hist.rebuilds[2]
        /\ Len(hist.rebuilds) >= 3 => hist.rebuilds[3]

\* C7 as amended: at frequency 2 with no explicit reconfigure, the reset made
\* by the constructor rebuilds; of the resets the caller issues afterwards
\* the 2nd and the 4th rebuild and the 1st and the 3rd do not.
C7_CallerSecondAndFourthRebuild ==
    (phase = "ready" /\ self.reconfiguration_freq = 2 /\ ~hist.explicit) =>
        \A k \in DOMAIN hist.rebuilds : hist.rebuilds[k] <=> (k % 2 = 0)

C7_Witness ==
    /\ Returned /\ self.reconfiguration_freq = 2 /\ ~hist.explicit
    /\ hist.rebuilds = <<FALSE, TRUE, FALSE, TRUE>>

\* C8: at frequency 0 no reset() rebuilds the scene unless its
\* options.reconfigure is true.
C8_FrequencyZeroNeverRebuilds ==
    (phase = "ready" /\ last.op = "reset" /\ self.reconfiguration_freq = 0
        /\ ~last.options.reconfigure) => ~Rebuilt(self)

C8_Witness ==
    /\ Returned /\ last.op = "reset" /\ self.reconfiguration_freq = 0
    /\ ~last.options.reconfigure /\ last.options.env_idx = None
    /\ hist.explicit /\ ~Rebuilt(self)
    /\ self._reconfig_counter = 0

\* C9 as stated: every step() advances the backend by exactly
\* simulation frequency / control frequency ticks.
C9_TicksAreExactQuotient ==
    (Returned /\ last.op = "step") => Ticks(self) * self._control_freq = self._sim_freq

\* C9 as amended: every step() advances the backend by the floor of
\* simulation frequency / control frequency ticks, which is the exact
\* quotient when it divides: 5 ticks at 100 and 20.
C9_TicksAreFlooredQuotient ==
    (Returned /\ last.op = "step") =>
        /\ Ticks(self) = self._sim_freq \div self._control_freq
        /\ (self._sim_freq = 100 /\ self._control_freq = 20) => Ticks(self) = 5

C9_Witness ==
    /\ Returned /\ last.op = "step"
    /\ self._sim_freq = 100 /\ self._control_freq = 20 /\ Ticks(self) = 5

\* C10 as stated: when the simulation frequency is not a multiple of the
\* control frequency no batch is produced.
C10_NoBatchOnMismatch ==
    phase = "ready" => self._sim_freq % self._control_freq = 0

\* C10 as amended: a mismatch is logged as a warning and is no error: the
\* constructor takes the floored quotient as the substep count and goes on
\* to build the scene in its first reset.
C10_MismatchOnlyWarns ==
    (phase # "new") =>
        /\ self.warned <=> (self._sim_freq % self._control_freq # 0)
        /\ self._sim_steps_per_control = self._sim_freq \div self._control_freq
        /\ last.op = "__init__" => Rebuilt(self)

C10_Witness ==
    /\ Returned /\ last.op = "__init__" /\ self.warned /\ Rebuilt(self)
    /\ self._sim_freq = 100 /\ self._control_freq = 30
    /\ self._sim_steps_per_control = 3

\* What the claims say terminated is, from the keys evaluate() reported.
ExpectedTerminated(obj, info) ==
    [i \in Envs(obj.num_envs) |->
        \/ (info.success # None /\ info.success[1][i])
        \/ (info.fail # None /\ info.fail[1][i])]

DenseWithHook(obj) ==
    obj._reward_mode \in {"dense", "normalized_dense"} /\ obj.hooks.dense

\* C11: the terminated value step() returns is success OR fail when
\* evaluate() reports both keys, success when it reports only success, fail
\* when it reports only fail and all-false when it reports neither (on a
\* task whose reward is computed, so that nothing else fails the step).
C11_TerminatedFromKeys ==
    (phase = "ready" /\ last.op = "step" /\ DenseWithHook(self)) =>
        /\ self.exc = ""
        /\ self.ret.terminated = ExpectedTerminated(self, evaluate(self))

\* C12: with the dense or the normalized dense reward mode on a task that
\* has no such reward hook, step() fails with an error and returns nothing,
\* no zero or default reward.
C12_MissingDenseHookFails ==
    (phase = "ready" /\ last.op = "step"
        /\ self._reward_mode \in {"dense", "normalized_dense"} /\ ~self.hooks.dense) =>
        /\ self.exc = "NotImplementedError"
        /\ self.ret.kind = "" /\ self.ret.reward = <<>>

C12_Witness ==
    /\ phase = "ready" /\ last.op = "step" /\ last.action = Array(1)
    /\ self._reward_mode = "normalized_dense" /\ ~self.hooks.dense
    /\ self.hooks.evaluate = {"success", "fail"}
    /\ self.exc = "NotImplementedError" /\ Count(self.trace, "get_obs") = 1

\* C13: what reset() and step() return has no leading batch axis on the
\* single-instance device and keeps its leading axis of size N on the
\* batched device, also when N is 1.
C13_BatchAxisFollowsDevice ==
    (Returned /\ last.op \in {"reset", "step"}) =>
        (self.ret.batched <=> self.device = "cuda")

\* C14: construction assigns the batched device exactly when num_envs > 1 or
\* force_use_gpu_sim is set and the single-threaded device otherwise, and no
\* reset, step, reconfigure, get_obs or close changes the device or the
\* batch size.
C14_DeviceFixedAtConstruction ==
    [][/\ phase = "new" =>
            /\ self'.num_envs = kwargs.num_envs
            /\ self'.device = "cuda" <=>
                   (kwargs.num_envs > 1 \/ kwargs.force_use_gpu_sim)
            /\ self'.device = "cpu" <=>
                   ~(kwargs.num_envs > 1 \/ kwargs.force_use_gpu_sim)
       /\ phase # "new" =>
            /\ self'.num_envs = self.num_envs
            /\ self'.device = self.device]_vars

C14_Witness ==
    /\ Returned /\ hist.closed /\ last.op = "reset" /\ last.options.reconfigure
    /\ self.num_envs = 1 /\ self.device = "cuda"

Applied(obj) == Count(obj.trace, "set_action") > 0

\* C15: with N == 1 an accepted action in per-instance shape, raw or inside
\* a control-mode dict, reaches the agent with a leading batch axis added;
\* with N > 1 no axis is added, and an action in full-batch shape reaches the
\* agent as it is.
C15_UnbatchedActionGetsAxis ==
    (phase = "ready" /\ last.op = "step" /\ Applied(self)) =>
        self.agent.axis =
            IF self.num_envs = 1 /\ last.action.shape = "single"
            THEN "batch"
            ELSE last.action.shape

Before(seq, a, b) ==
    \E j, k \in DOMAIN seq : j < k /\ seq[j] = a /\ seq[k] = b

\* C16 as stated: every step() whose action is a dict with a control-mode key
\* switches the controller to that mode and resets it before the contained
\* action is applied.
C16_AlwaysSwitchedAndReset ==
    (phase = "ready" /\ last.op = "step" /\ last.action.kind = "control_mode_dict"
        /\ Applied(self)) =>
        /\ self.agent.control_mode = last.action.mode
        /\ Before(self.trace, "set_control_mode", "controller.reset")
        /\ Before(self.trace, "controller.reset", "set_action")

\* C16 as amended: such a step leaves the controller in the mode of the dict;
\* when that mode differs from the controller's current mode the controller
\* is switched and reset, once and before the contained action is applied,
\* and when it is the current mode the controller is neither switched nor
\* reset.
C16_SwitchedAndResetOnChange ==
    [][(phase = "ready" /\ last'.op = "step"
          /\ last'.action.kind = "control_mode_dict" /\ Applied(self')) =>
          /\ self'.agent.control_mode = last'.action.mode
          /\ IF self.agent.control_mode # last'.action.mode
             THEN /\ Count(self'.trace, "set_control_mode") = 1
                  /\ Count(self'.trace, "controller.reset") = 1
                  /\ Before(self'.trace, "set_control_mode", "controller.reset")
                  /\ Before(self'.trace, "controller.reset", "set_action")
             ELSE /\ Count(self'.trace, "set_control_mode") = 0
                  /\ Count(self'.trace, "controller.reset") = 0]_vars

C16_Witness ==
    /\ Returned /\ last.op = "step" /\ last.action.kind = "control_mode_dict"
    /\ last.action.mode = "pd_ee_delta_pos"
    /\ self.agent.control_mode = "pd_ee_delta_pos"
    /\ self._control_mode = "pd_joint_pos"
    /\ Before(self.trace, "controller.reset", "set_action")

\* The object without the record of the call in flight.
Fields(obj) ==
    [obj EXCEPT !.exc = "", !.trace = <<>>, !.ret = NoReturn, !.fault = "",
                !.seen = NoSeen]

\* C17: step() with an action that is neither None, an array nor a dict, or
\* with a per-agent dict on a batch without multiple agents, fails at that
\* call and leaves every field of the batch as it was: no action applied, no
\* substep run, Elapsed Steps unchanged, so that the calls that follow see the
\* state they would have seen without it.
C17_RejectedActionChangesNothing ==
    [][(phase = "ready" /\ last'.op = "step"
          /\ \/ last'.action.kind = "other"
             \/ (last'.action.kind = "agent_dict" /\ ~self.agent.multi)) =>
          /\ self'.exc \in {"TypeError", "AssertionError"}
          /\ ~Applied(self') /\ Ticks(self') = 0
          /\ Fields(self') = Fields(self)
          /\ gpu_enabled' = gpu_enabled]_vars

C17_Witness ==
    /\ phase = "ready" /\ last.op = "step" /\ last.action.kind = "agent_dict"
    /\ ~self.agent.multi /\ self.exc = "AssertionError"
    /\ self.num_envs = 2 /\ Elapsed(self, 0) = 1 /\ self.agent.target = Some(1)

\* C18: get_obs() changes none of Elapsed Steps, the Reset Mask, the
\* Reconfiguration Counter, the Main and Episode Seeds and the RNG states,
\* and a get_obs() that follows a get_obs() returns the observation the
\* first one returned.
C18_GetObsIdempotent ==
    [][(phase = "ready" /\ last'.op = "get_obs") =>
          /\ self'._elapsed_steps = self._elapsed_steps
          /\ self'._scene._reset_mask = self._scene._reset_mask
          /\ self'._reconfig_counter = self._reconfig_counter
          /\ self'._main_seed = self._main_seed
          /\ self'._episode_seed = self._episode_seed
          /\ self'._main_rng = self._main_rng
          /\ self'._episode_rng = self._episode_rng
          /\ (last.op = "get_obs" /\ self.exc = "" /\ self'.exc = "") =>
                 self'.ret = self.ret]_vars

C18_Witness ==
    /\ Returned /\ last.op = "get_obs" /\ hist.observed = 2
    /\ self._obs_mode = "rgbd" /\ self.num_envs = 2
    /\ self.ret.kind = "get_obs" /\ self.ret.obs = observation(self)
    /\ Elapsed(self, 0) = 1 /\ ~hist.closed

Owns(obj) == obj._scene.exists /\ obj.agent.exists

\* C20: once close() has been called, no reset (with or without
\* options.reconfigure), step or reconfigure brings the batch back to a state
\* that owns a scene and an agent.
C20_ClosedIsTerminal ==
    hist.closed => ~Owns(self)

(***************************************************************************)
(* C21: reset() with an explicit empty env_idx is a no-op reset: the four  *)
(* initialization hooks are still invoked, each over zero indices, and no  *)
(* instance's Elapsed Steps, pose or velocity changes.                     *)
(***************************************************************************)
C21_EmptyResetIsNoOp ==
    [][(last'.op = "reset" /\ last'.options.env_idx = Some({})) =>
          /\ self'._elapsed_steps = self._elapsed_steps
          /\ self'._scene.pose = self._scene.pose
          /\ self'._scene.vel = self._scene.vel
          /\ self'.exc = "" => self'.seen.env_idx = <<{}, {}, {}, {}>>]_vars

\* Construction with supported and unsupported modes, task classes that
\* declare their robots or not, and the rendering calls.
InitSetup ==
    InitWith(Setup(Kwargs({1, 2}, {FALSE}, {0}, {<<100, 20>>}),
                   {"state", "depth"}, {"sparse", "shaped"},
                   {None, Some("human"), Some("rgb_array"), Some("video")},
                   {BaseEnv, CleanSpotsEnv, StickOnlyEnv},
                   {"panda", "panda_stick"}),
             BOOLEAN)

NextSetup ==
    \/ Construct
    \/ RenderCall
    \/ ResetCall({Some(1)}, BOOLEAN, {})
    \/ ReconfigureCall
    \/ CloseCall

SpecSetup == InitSetup /\ [][NextSetup]_vars

(***************************************************************************)
(* C22: an unsupported observation mode, reward mode or render mode is     *)
(* rejected with an error during construction, before the first reset     *)
(* builds any scene.                                                       *)
(***************************************************************************)
C22_UnsupportedModeRejected ==
    [][(last'.op = "__init__"
        /\ \/ kwargs.obs_mode \notin SUPPORTED_OBS_MODES
           \/ kwargs.reward_mode \notin SUPPORTED_REWARD_MODES
           \/ /\ kwargs.render_mode # None
              /\ kwargs.render_mode[1] \notin SUPPORTED_RENDER_MODES) =>
          /\ self'.exc # ""
          /\ ~Rebuilt(self')
          /\ ~self'._scene.exists]_vars

(***************************************************************************)
(* C23: constructing a task with a robot that is not in the set the task   *)
(* declares as supported fails at construction before any scene is built;  *)
(* CleanSpots, which declares panda_stick only, rejects every other robot.  *)
(***************************************************************************)
C23_UnsupportedRobotRejected ==
    [][(last'.op = "__init__"
        /\ Declared(kwargs.cls) # None
        /\ kwargs.robot \notin Declared(kwargs.cls)[1]) =>
          /\ self'.exc = "AssertionError"
          /\ ~Rebuilt(self')
          /\ ~self'._scene.exists]_vars

(***************************************************************************)
(* C29: if an interactive viewer is attached when a reconfigure starts,    *)
(* then when the reconfigure ends the same viewer is still attached and    *)
(* has been set to the newly built scene.                                  *)
(***************************************************************************)
C29_ViewerSurvivesReconfigure ==
    [][(last'.op \in {"reset", "reconfigure"}
        /\ Rebuilt(self') /\ self'.exc = ""
        /\ self._viewer # None) =>
          /\ self'._viewer = Some("bound")
          /\ Count(self'.trace, "viewer.close") = 0]_vars

(***************************************************************************)
(* C24: the truncated value every step() returns is all-false (one zero    *)
(* per instance, or False), on both devices, for every action and every    *)
(* elapsed-step count.                                                     *)
(***************************************************************************)
C24_TruncatedAllFalse ==
    (last.op = "step" /\ Returned) =>
        IF self.ret.truncated.kind = "tensor"
        THEN /\ DOMAIN self.ret.truncated.val = Envs(self.num_envs)
             /\ \A i \in Envs(self.num_envs) : self.ret.truncated.val[i] = 0
        ELSE self.ret.truncated.val = FALSE

C24_Witness ==
    /\ last.op = "step" /\ Returned
    /\ self.device = "cpu"
    /\ last.action.kind = "array"
    /\ \A i \in Envs(self.num_envs) : Elapsed(self, i) = MaxSteps

\* The RNG streams over the whole life of a batch: seeded and unseeded
\* resets, with tasks that draw from the episode RNG while they load.
InitDraws ==
    InitWith(Loading(Kwargs({1}, {TRUE}, {0, 1}, {<<100, 20>>}), BOOLEAN, {None}),
             {FALSE})

NextDraws ==
    \/ Construct
    \/ ResetCall({None, Some(0), Some(1)}, BOOLEAN, {})
    \/ StepCall({NoAction}, MaxSteps)
    \/ ReconfigureCall
    \/ GetObsCall
    \/ CloseCall

SpecDraws == InitDraws /\ [][NextDraws]_vars

(***************************************************************************)
(* C25: reset(seed=None) on a constructed batch leaves the Main Seed       *)
(* unchanged and consumes exactly one draw from the main RNG, whether or   *)
(* not it reconfigures; no step(), get_obs(), reconfigure() or close()     *)
(* draws from or reseeds the main RNG.                                     *)
(***************************************************************************)
C25_UnseededResetDrawsOnce ==
    [][/\ (last'.op = "reset" /\ last'.seed = None) =>
             /\ self'._main_seed = self._main_seed
             /\ self'._main_rng = advance(self._main_rng)
       /\ last'.op \in {"step", "get_obs", "reconfigure", "close"} =>
             /\ self'._main_seed = self._main_seed
             /\ self'._main_rng = self._main_rng]_vars

C25_Witness ==
    /\ last.op = "reset" /\ last.seed = None /\ Returned
    /\ Rebuilt(self)
    /\ hist.none_resets = 2
    /\ self._main_rng.pos = 2

(***************************************************************************)
(* C27: in every reset() the main RNG is set before the episode RNG, and   *)
(* when the initialization hooks start the episode RNG is in the freshly   *)
(* seeded state of that reset's Episode Seed, whether a reconfigure ran in *)
(* the call or not; so resets with the same explicit seed s hand the       *)
(* initialization hooks the same RNG state whatever happened before.       *)
(***************************************************************************)
C27_HooksFindFreshEpisodeRng ==
    (last.op \in {"__init__", "reset"} /\ self.seen.rng # None) =>
        /\ \A k \in DOMAIN self.trace : self.trace[k] = "_set_episode_rng" =>
              \E j \in 1 .. (k - 1) : self.trace[j] = "_set_main_rng"
        /\ self.seen.rng = Some(RandomState(self._episode_seed[1]))
        /\ (last.op = "reset" /\ last.seed # None) =>
              self.seen.rng = Some(RandomState(last.seed[1]))

C27_Witness ==
    /\ last.op = "reset" /\ last.seed = Some(1) /\ Returned
    /\ Rebuilt(self) /\ self.hooks.draws
    /\ hist.closed
    /\ self.seen.rng = Some(RandomState(1))

\* The order of the steps of reset() and reconfigure(), with and without
\* user sensor configurations, and with task hooks that raise.
LoadHooks == {"_load_actors", "_load_articulations", "_register_sensors"}

InitOrder ==
    InitWith(Loading(Kwargs({1, 2}, {FALSE}, {0, 1}, {<<100, 20>>}), {FALSE},
                     {None, Some("user")}),
             BOOLEAN)

NextOrder ==
    \/ Construct
    \/ ResetCall({Some(1)}, BOOLEAN, {{}, {0}})
    \/ FaultyResetCall({Some(1)}, BOOLEAN, LoadHooks)
    \/ StepCall({NoAction}, MaxSteps)
    \/ ReconfigureCall
    \/ CloseCall

SpecOrder == InitOrder /\ [][NextOrder]_vars

(***************************************************************************)
(* C26: when a task hook raises during a reconfigure, the error reaches    *)
(* the caller of reset() unchanged, no later reconfigure step and no       *)
(* initialization hook runs in that call, the hook is not retried, and the *)
(* Reconfiguration Counter is not set to the configured frequency (it is   *)
(* left as it was).                                                        *)
(***************************************************************************)
C26_HookErrorAbortsReset ==
    [][(last'.op = "reset" /\ self'.fault # "" /\ Rebuilt(self')) =>
          /\ self'.exc = "RuntimeError"
          /\ self'.ret = NoReturn
          /\ self'.trace[Len(self'.trace)] = self'.fault
          /\ Count(self'.trace, self'.fault) = 1
          /\ self'.seen = NoSeen
          /\ self'._reconfig_counter = self._reconfig_counter]_vars

C26_Witness ==
    /\ last.op = "reset" /\ self.fault = "_load_articulations" /\ Rebuilt(self)
    /\ ~last.options.reconfigure
    /\ self.exc = "RuntimeError"
    /\ self._reconfig_counter # self.reconfiguration_freq

\* The steps of a reconfigure in the order C28 gives them.
ReconfigureOrder ==
    <<"_clear", "_setup_scene", "_load_agent", "_load_actors", "_load_articulations",
      "_setup_lighting", "_register_sensors", "agent.sensor_configs",
      "_configure_human_render_cameras", "update_camera_cfgs_from_dict",
      "_setup_gpu", "_setup_sensors">>

\* The events of seq that are among those of order, as their ranks in order.
RECURSIVE Ranks(_, _)
Ranks(seq, order) ==
    IF seq = <<>> THEN <<>>
    ELSE LET r == {k \in DOMAIN order : order[k] = Head(seq)}
         IN  (IF r = {} THEN <<>> ELSE <<CHOOSE k \in r : TRUE>>)
                 \o Ranks(Tail(seq), order)

Increasing(ranks) ==
    \A j, k \in DOMAIN ranks : j < k => ranks[j] < ranks[k]

(***************************************************************************)
(* C28: every reconfigure runs its steps strictly in this order: release   *)
(* the prior scene content and agent; rebuild the physics scene; load the  *)
(* agent; load actors, then articulations; set up lighting; resolve the    *)
(* sensor and render-camera configurations (task-declared, then            *)
(* agent-declared, then user overrides, the later one in force); on the    *)
(* batched device run the backend's batched initialization; instantiate    *)
(* the sensors.  A call that raises has run a prefix of it.                *)
(***************************************************************************)
C28_ReconfigureOrder ==
    (last.op \in {"__init__", "reset", "reconfigure"} /\ Rebuilt(self)) =>
        LET ranks == Ranks(self.trace, ReconfigureOrder)
            optional == {k \in DOMAIN ReconfigureOrder :
                           \/ /\ ReconfigureOrder[k] = "update_camera_cfgs_from_dict"
                              /\ self._custom_sensor_cfgs = None
                           \/ /\ ReconfigureOrder[k] = "_setup_gpu"
                              /\ ~gpu_enabled}
        IN  /\ Increasing(ranks)
            /\ \A k \in DOMAIN ranks : k > 1 =>
                  \A m \in (ranks[k - 1] + 1) .. (ranks[k] - 1) : m \in optional
            /\ ranks # <<>> /\ ranks[1] = 1
            /\ self.fault = "" => ranks[Len(ranks)] = Len(ReconfigureOrder)
            /\ self.fault = "" =>
                  self._sensor_cfgs[Len(self._sensor_cfgs)] =
                      IF self._custom_sensor_cfgs # None
                      THEN self._custom_sensor_cfgs[1] ELSE "agent"

C28_Witness ==
    /\ last.op = "reset" /\ Rebuilt(self) /\ Returned
    /\ gpu_enabled /\ self.device = "cpu"
    /\ self._sensor_cfgs = <<"task", "agent", "user">>
    /\ Before(self.trace, "_setup_gpu", "_setup_sensors")
    /\ Before(self.trace, "_load_agent", "_load_actors")

\* The steps of a reset in the order C30 gives them, the reconfigure being
\* its first step "_clear" to its last "_setup_sensors".
ResetOrder ==
    <<"_set_main_rng", "reconfigure", "_setup_sensors", "_reset_mask", "_elapsed_steps",
      "_clear_sim_state", "agent.reset", "_initialize_actors",
      "_initialize_articulations", "_initialize_agent", "_initialize_task",
      "get_obs">>

(***************************************************************************)
(* C30: every reset() runs in this order: seeds minted; optional           *)
(* reconfigure; Reset Mask published; Elapsed Steps zeroed; the            *)
(* clear-state pass, which runs exactly when no reconfigure was performed  *)
(* in the call; agent reset; the four initialization hooks in the order    *)
(* actors, articulations, agent, task, each receiving the same index list  *)
(* (the masked indices, or 0..N-1 when no subset was given); then the      *)
(* initial observation.                                                    *)
(***************************************************************************)
C30_ResetOrder ==
    (last.op = "reset" /\ self.fault = "") =>
        LET ranks == Ranks(self.trace, ResetOrder)
            env_idx == IF last.options.env_idx # None THEN last.options.env_idx[1]
                       ELSE Envs(self.num_envs)
        IN  /\ Increasing(ranks)
            /\ ranks[1] = 1
            /\ Before(self.trace, "_set_main_rng", "_set_episode_rng")
            /\ Rebuilt(self) => Before(self.trace, "_set_episode_rng", "reconfigure")
            /\ Returned =>
                  /\ {ResetOrder[ranks[k]] : k \in DOMAIN ranks} =
                        {ResetOrder[k] : k \in DOMAIN ResetOrder} \
                            (IF Rebuilt(self) THEN {"_clear_sim_state"}
                             ELSE {"reconfigure", "_setup_sensors"})
                  /\ self.seen.env_idx = <<env_idx, env_idx, env_idx, env_idx>>

C30_Witness ==
    /\ last.op = "reset" /\ last.options.env_idx = Some({0}) /\ Returned
    /\ self.num_envs = 2
    /\ ~Rebuilt(self)
    /\ Before(self.trace, "_clear_sim_state", "agent.reset")
    /\ self.seen.env_idx = <<{0}, {0}, {0}, {0}>>

(***************************************************************************)
(* C31: every step() applies the action to the agent at most once and      *)
(* before the first substep, not at all when the action is None (the       *)
(* physics still advances the full number of substeps); each substep runs  *)
(* the pre-substep agent hook, one physics tick, the post-substep hook;    *)
(* and where the batched backend is on, state is pulled from it exactly    *)
(* once, after the last substep.                                           *)
(***************************************************************************)
C31_StepActionOrder ==
    last.op = "step" =>
        LET t == self.trace
        IN  /\ Count(t, "set_action") <= 1
            /\ last.action.kind = "None" => ~Applied(self)
            /\ \A j, k \in DOMAIN t :
                  (t[j] = "set_action" /\ t[k] = "before_simulation_step") => j < k
            /\ \A k \in DOMAIN t : t[k] = "scene.step" =>
                  /\ k > 1 /\ t[k - 1] = "before_simulation_step"
                  /\ k < Len(t) /\ t[k + 1] = "_after_simulation_step"
            /\ Count(t, "before_simulation_step") = Ticks(self)
            /\ Count(t, "_after_simulation_step") = Ticks(self)
            /\ Returned =>
                  /\ Ticks(self) = self._sim_steps_per_control
                  /\ Count(t, "_gpu_fetch_all") = IF gpu_enabled THEN 1 ELSE 0
                  /\ \A j, k \in DOMAIN t :
                        (t[j] = "_after_simulation_step" /\ t[k] = "_gpu_fetch_all")
                            => j < k

C31_Witness ==
    /\ last.op = "step" /\ Returned /\ last.action.kind = "None"
    /\ Ticks(self) = 3
    /\ self.num_envs = 2
    /\ Before(self.trace, "_after_simulation_step", "_gpu_fetch_all")

(***************************************************************************)
(* C32: within every step() the evaluation hook is invoked exactly once,   *)
(* after all substeps and after Elapsed Steps was incremented, and its     *)
(* result is the one used for the observation, the reward, the terminated  *)
(* value and the returned info; the reward is computed only after the      *)
(* observation.                                                            *)
(***************************************************************************)
C32_EvaluateOncePerStep ==
    last.op = "step" =>
        LET t == self.trace
        IN  /\ Count(t, "evaluate") <= 1
            /\ \A j, k \in DOMAIN t :
                  /\ (t[j] \in {"_after_simulation_step", "_elapsed_steps += 1"}
                       /\ t[k] = "evaluate") => j < k
                  /\ (t[j] = "evaluate" /\ t[k] \in {"get_obs", "get_reward"}) => j < k
                  /\ (t[j] = "get_obs" /\ t[k] = "get_reward") => j < k
            /\ Count(t, "get_reward") > 0 => Count(t, "get_obs") = 1
            /\ Returned =>
                  /\ Count(t, "evaluate") = 1
                  /\ Count(t, "_elapsed_steps += 1") = 1
                  /\ self.ret.info = evaluate(self)
                  /\ self.ret.terminated = ExpectedTerminated(self, self.ret.info)
                  /\ self._reward_mode = "sparse" =>
                        self.ret.reward = self.ret.info.success[1]

C32_Witness ==
    /\ last.op = "step" /\ Returned /\ last.action = Array(1)
    /\ self.hooks.evaluate = {"success", "fail"}
    /\ self._reward_mode = "sparse"
    /\ \E i \in Envs(self.num_envs) : self.ret.terminated[i]
    /\ Before(self.trace, "get_obs", "get_reward")

(***************************************************************************)
(* C33: the Reset Mask restricts writes only for the duration of the       *)
(* reset() call that published it: once a reset with an explicit env_idx   *)
(* subset has returned, the mask in effect for later step() and            *)
(* set_state() calls is the full mask again.                               *)
(***************************************************************************)
C33_MaskFullBetweenResets ==
    (phase = "ready" /\ last.op \in {"step", "set_state"} /\ self._scene.exists) =>
        \A i \in Envs(self.num_envs) : self._scene._reset_mask[i]

\* The Reconfiguration Counter over the life of a batch, at every
\* frequency up to MaxFreq, with resets that raise.
InitPeriod == InitWith(Kwargs({1}, {TRUE}, 0 .. MaxFreq, {<<100, 20>>}), {FALSE})

NextPeriod ==
    \/ Construct
    \/ ResetCall({Some(1)}, BOOLEAN, {})
    \/ FaultyResetCall({Some(1)}, {FALSE}, {"_load_actors"})
    \/ StepCall({NoAction}, MaxSteps)
    \/ ReconfigureCall
    \/ CloseCall

SpecPeriod == InitPeriod /\ [][NextPeriod]_vars

(***************************************************************************)
(* C34: with reconfiguration frequency f >= 1 and no explicit reconfigure  *)
(* option, counting the reset of the construction as number 1, the resets  *)
(* that rebuild are exactly numbers 1, f+1, 2f+1, ...; a reset with        *)
(* options.reconfigure = true rebuilds and restarts this period from it.   *)
(***************************************************************************)
C34_RebuildEveryFthReset ==
    [][/\ (last'.op = "__init__" /\ self'.exc = "") => Rebuilt(self')
       /\ (last'.op = "reset" /\ self'.exc = "" /\ last'.options.reconfigure) =>
             Rebuilt(self')
       /\ (last'.op = "reset" /\ self'.exc = "" /\ ~last'.options.reconfigure
            /\ self.reconfiguration_freq >= 1 /\ hist.period # -1) =>
             (Rebuilt(self') <=> hist'.period = 0)]_vars

C34_Witness ==
    /\ last.op = "reset" /\ Returned /\ ~last.options.reconfigure
    /\ self.reconfiguration_freq = 2
    /\ hist.explicit /\ hist.period = 0
    /\ Rebuilt(self)

(***************************************************************************)
(* C35: for every configured frequency f >= 0 and every sequence of        *)
(* reset, step, reconfigure and close calls, the Reconfiguration Counter   *)
(* stays within 0..f; it equals f right after reconfigure() returns, and   *)
(* it stays 0 when f = 0.                                                  *)
(***************************************************************************)
C35_CounterWithinFrequency ==
    phase # "new" =>
        /\ self._reconfig_counter \in 0 .. self.reconfiguration_freq
        /\ (last.op = "reconfigure" /\ self.exc = "") =>
              self._reconfig_counter = self.reconfiguration_freq

C35_Witness ==
    /\ phase = "ready" /\ last.op = "reconfigure" /\ self.exc = ""
    /\ hist.closed
    /\ self.reconfiguration_freq = MaxFreq
    /\ self._reconfig_counter = MaxFreq

\* Controller switches, resets and reconfigures in any order.
InitSpace == InitWith(Kwargs({1, 2}, {TRUE}, {0, 1}, {<<100, 20>>}), BOOLEAN)

NextSpace ==
    \/ Construct
    \/ ResetCall({Some(1)}, BOOLEAN, {})
    \/ StepCall({NoAction, Single(1)} \cup
                    {ModeDict(m, Array(1)) : m \in ControlModes}, MaxSteps)
    \/ ReconfigureCall

SpecSpace == InitSpace /\ [][NextSpace]_vars

(***************************************************************************)
(* C36: the Original Action Space Shape is captured exactly once, after    *)
(* the reset performed during construction, and is never reassigned        *)
(* afterwards: not by later resets, not by reconfigures that rebuild the   *)
(* agent, and not by a controller switch requested through a control-mode  *)
(* action.                                                                 *)
(***************************************************************************)
C36_OriginalActionSpaceFixed ==
    /\ phase = "new" => self._orig_single_action_space = None
    /\ phase = "ready" => self._orig_single_action_space = Some(self._control_mode)

C36_Witness ==
    /\ Returned /\ last.op = "step"
    /\ hist.seeded_with = Some(1) /\ hist.explicit
    /\ self.agent.control_mode # self._control_mode
    /\ self._orig_single_action_space = Some(self._control_mode)

\* C37: every device-dependent branch a batch takes in construction, reset,
\* step, get_state and set_state (vector or scalar Elapsed Steps, backend
\* push and pull, batched or unbatched return) agrees with the device the
\* batch was assigned at construction, also when an earlier batch of the
\* process selected the batched-accelerated backend.
C37_BranchesFollowBatchDevice ==
    phase # "new" =>
        /\ self._elapsed_steps.kind = "tensor" <=> self.device = "cuda"
        /\ (Count(self.trace, "_gpu_apply_all") > 0
               \/ Count(self.trace, "_gpu_fetch_all") > 0) => self.device = "cuda"
        /\ (Returned /\ last.op \in {"reset", "step"}) =>
               (self.ret.batched <=> self.device = "cuda")

\* C38: on the single-instance device, where Elapsed Steps is a scalar,
\* get_info() completes, so reset(), step() and get_obs(), which all call
\* it, and the constructor, which resets, complete as well.
C38_ScalarInfoCompletes ==
    (/\ phase # "new"
     /\ self._elapsed_steps.kind = "int"
     /\ last.op \in {"__init__", "reset", "step", "get_obs"}) =>
        self.exc # "AttributeError"

\* C39: on the batched-accelerated device, the observation reset() returns
\* is computed only after the writes of the initialization hooks have been
\* pushed to the backend and pulled back.
C39_ResetObservesAfterPushPull ==
    (Returned /\ last.op = "reset" /\ self.device = "cuda") =>
        \E i, j, k, l \in DOMAIN self.trace :
            /\ i < j /\ j < k /\ k < l
            /\ self.trace[i] = "_initialize_task"
            /\ self.trace[j] = "_gpu_apply_all"
            /\ self.trace[k] = "_gpu_fetch_all"
            /\ self.trace[l] = "get_obs"

(***************************************************************************)
(* The CleanSpots task.  obj.spots[s][i] is the pose of spot s in instance  *)
(* i: "built" as the actor builder leaves it, "hidden" as the episode hook  *)
(* sets it, "drawn" at the brush; obj.draw_step is one number for the whole *)
(* batch.                                                                  *)
(***************************************************************************)
MAX_SPOTS == 5

\* Actor.set_pose on the batched backend: the rows of the published Reset
\* Mask are written.
set_pose(mask, poses, p) ==
    [i \in DOMAIN poses |-> IF mask[i] THEN p ELSE poses[i]]

\* self.spots = []; for i in range(self.MAX_SPOTS): ... build_kinematic
_load_scene(obj) ==
    [Log(obj, "_load_scene") EXCEPT
        !.spots = [s \in 1 .. MAX_SPOTS |-> [i \in Envs(obj.num_envs) |-> "built"]]]

\* self.draw_step = 0; for spot in self.spots: spot.set_pose(...)
_initialize_episode(obj, env_idx) ==
    [InitHook(obj, "_initialize_episode", env_idx) EXCEPT
        !.draw_step = Some(0),
        !.spots = [s \in DOMAIN @ |-> set_pose(obj._scene._reset_mask, @[s], "hidden")]]

\* A variant with the drawing statements, which the source has commented
\* out, in force: the next unused spot moves to the brush.
_after_control_step_drawing(obj) ==
    [Log(Log(obj, "_gpu_fetch_all"), "_gpu_apply_all") EXCEPT
        !.spots[obj.draw_step[1] + 1] = set_pose(obj._scene._reset_mask, @, "drawn"),
        !.draw_step = Some(@[1] + 1)]

\* The brush position is computed and nothing is written.
_after_control_step(obj) ==
    Log(Log(obj, "_gpu_fetch_all"), "_gpu_apply_all")

\* reset(options) of the task's base class: the optional rebuild loads the
\* scene, the Reset Mask is published, Elapsed Steps are zeroed for env_idx
\* and the episode hook is called with env_idx.
clean_spots_reset(obj, options) ==
    LET env_idx == reset_indices(obj, options)
        o1 == IF options.reconfigure THEN _load_scene(obj) ELSE obj
        o2 == publish_mask(Log(o1, "_reset_mask"), env_idx)
        o3 == zero_elapsed(o2, env_idx, TRUE)
    IN  _initialize_episode(o3, env_idx)

\* CleanSpotsEnv(num_envs=n) on the batched device: the constructor ends
\* with a full reset that rebuilds.
clean_spots_init(kw) ==
    clean_spots_reset(
        [NoObject EXCEPT !.num_envs = kw.num_envs, !.cls = kw.cls,
                         !.robot = kw.robot, !.device = "cuda",
                         !._scene = ManiSkillScene(kw.num_envs),
                         !._elapsed_steps =
                             [kind |-> "tensor",
                              val |-> [i \in Envs(kw.num_envs) |-> 0]]],
        [reconfigure |-> TRUE, env_idx |-> None])

\* step(action) of the task's base class: the control step ends with the
\* task's hook, then Elapsed Steps is incremented.
clean_spots_step(obj) == increment_elapsed(_after_control_step(obj))

SpotsConstruct ==
    /\ phase = "new"
    /\ self' = clean_spots_init(kwargs)
    /\ gpu_enabled' = TRUE
    /\ phase' = "ready"
    /\ last' = Call("__init__", None, NoOptions, NoAction)
    /\ kwargs' = NoKwargs
    /\ UNCHANGED hist

SpotsResetCall(reconfs, subsets) ==
    /\ phase = "ready"
    /\ \E rc \in reconfs, idx \in {None} \cup {Some(m) : m \in subsets} :
          /\ idx # None => idx[1] \subseteq Envs(self.num_envs)
          /\ self' = clean_spots_reset(Begin(self),
                                       [reconfigure |-> rc, env_idx |-> idx])
          /\ last' = Call("reset", None, [reconfigure |-> rc, env_idx |-> idx],
                          NoAction)
    /\ UNCHANGED <<kwargs, gpu_enabled, phase, hist>>

SpotsStepCall(maxsteps) ==
    /\ phase = "ready"
    /\ \A n \in Steps(self) : n < maxsteps
    /\ self' = clean_spots_step(Begin(self))
    /\ last' = Call("step", None, NoOptions, NoAction)
    /\ UNCHANGED <<kwargs, gpu_enabled, phase, hist>>

InitSpots ==
    InitWith(Setup(Kwargs(1 .. MaxEnvs, {TRUE}, {0}, {<<100, 20>>}),
                   {"state"}, {"none"}, {None}, {CleanSpotsEnv}, {"panda_stick"}),
             {FALSE})

NextSpots ==
    \/ SpotsConstruct
    \/ SpotsResetCall(BOOLEAN, SUBSET Envs(MaxEnvs))
    \/ SpotsStepCall(MaxSteps + 2)

SpecSpots == InitSpots /\ [][NextSpots]_vars

==============================================================================
